---- MODULE Spec2Model ----
(***************************************************************************)
(* Sync::CriticalSection (a recursive lock over a native mutex, with the   *)
(* debug owner field thread_) and AtomicOps (SafeGet, SafeSet, Increment,  *)
(* Decrement) of OneScream/Engine/criticalsection.h.                       *)
(*                                                                         *)
(* The model is of the debug build (CS_TRACK_OWNER defined), where every   *)
(* TRACK_OWNER(x) statement is compiled in.  Thread ids are 1..NThreads;   *)
(* 0 is the "no thread" id the constructors store in thread_.              *)
(***************************************************************************)
EXTENDS Integers, Sequences, FiniteSets

\* ---- bounds of the model ------------------------------------------------
NThreads == 2
MaxDepth == 2
MaxIncs == 2
MaxCalls == 4

Threads == 1..NThreads
\* CriticalSection instances that can be allocated (one per thread is the most
\* a racing first use could construct).
Crits == 1..NThreads

VARIABLES
  \* Sync::CriticalSection, per instance
  mutex_owner,   \* owner of the native mutex_ / crit_ (0: unlocked)
  mutex_count,   \* recursion count of the native mutex
  mutex_type,    \* type given to pthread_mutexattr_settype
  thread_,       \* TRACK_OWNER field
  ncrit,         \* number of CriticalSection objects constructed so far
  \* threads
  pc,            \* position of each thread
  held,          \* Enter/TryEnter successes minus Leaves of each thread (caller's view)
  bret,          \* bool returned by TryEnter / CurrentThreadIsOwner
  \* client of one CriticalSection: a counter incremented non-atomically
  counter, tmp, incs,
  \* AtomicOps
  platform,      \* "WIN32" or "APPLE" (the #else branch of #ifdef WIN32)
  job,           \* the AtomicOps function each thread calls
  calls,         \* calls each thread has completed
  val,           \* the location the operations work on
  arg,           \* value argument / register of the call in progress
  ret,           \* value the call in progress returns
  scope,         \* the lock held by the SafeLock of the call in progress (0: none)
  crit,          \* static pointer of StaticCrit (0: not yet initialised)
  critInit,      \* guard of the static's initialisation: "no", "running", "done"
  lastSet,       \* value installed by the last SafeSet that took effect
  seen,          \* values val held since the invocation of the SafeGet in progress
  results        \* values returned to each thread by its completed calls

lockVars == <<mutex_owner, mutex_count, mutex_type, thread_, ncrit>>
clientVars == <<counter, tmp, incs>>
atomVars == <<platform, job, calls, val, arg, ret, scope, crit, critInit,
              lastSet, seen, results>>
vars == <<mutex_owner, mutex_count, mutex_type, thread_, ncrit, pc, held, bret,
          counter, tmp, incs, platform, job, calls, val, arg, ret, scope, crit,
          critInit, lastSet, seen, results>>

\* The CriticalSection the lock client works on.
TheLock == 1

----------------------------------------------------------------------------
\* Native recursive mutex (pthread_mutex_t of type RECURSIVE, CRITICAL_SECTION)

MutexType_default == "NORMAL"
\* pthread_mutexattr_settype(&mutex_attribute, PTHREAD_MUTEX_RECURSIVE);
\* a CRITICAL_SECTION is always recursive.
MutexType == "RECURSIVE"

\* pthread_mutex_lock / EnterCriticalSection can return for thread t.
\* A NORMAL mutex relocked by its owner never returns.
mutex_can_lock(c, t) ==
  \/ mutex_owner[c] = 0
  \/ mutex_owner[c] = t /\ mutex_type[c] = "RECURSIVE"

mutex_acquire(c, t) ==
  /\ mutex_owner' = [mutex_owner EXCEPT ![c] = t]
  /\ mutex_count' = [mutex_count EXCEPT ![c] = @ + 1]

\* pthread_mutex_unlock / LeaveCriticalSection by the owner.
mutex_unlock(c, t) ==
  /\ mutex_count' = [mutex_count EXCEPT ![c] = IF @ > 0 THEN @ - 1 ELSE 0]
  /\ mutex_owner' = [mutex_owner EXCEPT ![c] = IF mutex_count[c] > 1 THEN @ ELSE 0]

\* new Sync::CriticalSection(): the constructor on a fresh object c.
Construct(c) ==
  /\ mutex_owner' = [mutex_owner EXCEPT ![c] = 0]
  /\ mutex_count' = [mutex_count EXCEPT ![c] = 0]
  /\ mutex_type' = [mutex_type EXCEPT ![c] = MutexType]
  /\ thread_' = [thread_ EXCEPT ![c] = 0]
  /\ ncrit' = ncrit + 1

----------------------------------------------------------------------------
\* Sync::CriticalSection methods, one operator per statement.  from/to are the
\* caller's positions before and after the statement.

Goto(t, to) == pc' = [pc EXCEPT ![t] = to]

Enter_lock_nocheck(t, c, from, to) ==
  /\ pc[t] = from
  /\ mutex_acquire(c, t)
  /\ Goto(t, to)
  /\ UNCHANGED <<mutex_type, thread_, ncrit>>

\* Enter(): pthread_mutex_lock(&mutex_) / EnterCriticalSection(&crit_)
Enter_lock(t, c, from, to) ==
  /\ pc[t] = from
  /\ mutex_can_lock(c, t)
  /\ mutex_acquire(c, t)
  /\ Goto(t, to)
  /\ UNCHANGED <<mutex_type, thread_, ncrit>>

\* Enter() / TryEnter(): TRACK_OWNER(thread_ = pthread_self())
Enter_track(t, c, from, to) ==
  /\ pc[t] = from
  /\ thread_' = [thread_ EXCEPT ![c] = t]
  /\ Goto(t, to)
  /\ UNCHANGED <<mutex_owner, mutex_count, mutex_type, ncrit>>

TryEnter_trylock_nocheck(t, c, from, ok, busy) ==
  /\ pc[t] = from
  /\ mutex_acquire(c, t)
  /\ Goto(t, ok)
  /\ UNCHANGED <<mutex_type, thread_, ncrit>>

\* TryEnter(): if (pthread_mutex_trylock(&mutex_) == 0) ... return false;
TryEnter_trylock(t, c, from, ok, busy) ==
  /\ pc[t] = from
  /\ IF mutex_can_lock(c, t)
       THEN /\ mutex_acquire(c, t)
            /\ Goto(t, ok)
       ELSE /\ UNCHANGED <<mutex_owner, mutex_count>>
            /\ Goto(t, busy)
  /\ UNCHANGED <<mutex_type, thread_, ncrit>>

Leave_track_keep(t, c, from, to) ==
  /\ pc[t] = from
  /\ Goto(t, to)
  /\ UNCHANGED <<mutex_owner, mutex_count, mutex_type, thread_, ncrit>>

\* Leave(): TRACK_OWNER(thread_ = 0)
Leave_track(t, c, from, to) ==
  /\ pc[t] = from
  /\ thread_' = [thread_ EXCEPT ![c] = 0]
  /\ Goto(t, to)
  /\ UNCHANGED <<mutex_owner, mutex_count, mutex_type, ncrit>>

Leave_unlock_skip(t, c, from, to) ==
  /\ pc[t] = from
  /\ Goto(t, to)
  /\ UNCHANGED <<mutex_owner, mutex_count, mutex_type, thread_, ncrit>>

\* Leave(): pthread_mutex_unlock(&mutex_) / LeaveCriticalSection(&crit_)
Leave_unlock(t, c, from, to) ==
  /\ pc[t] = from
  /\ mutex_unlock(c, t)
  /\ Goto(t, to)
  /\ UNCHANGED <<mutex_type, thread_, ncrit>>

\* CurrentThreadIsOwner(): pthread_equal(thread_, pthread_self())
CurrentThreadIsOwner(t, c) == thread_[c] = t

----------------------------------------------------------------------------
\* Threads working on one CriticalSection (TheLock): each is between calls
\* ("idle") or inside Enter, TryEnter, Leave or CurrentThreadIsOwner.  While it
\* holds the lock a thread may increment the shared counter non-atomically.

InitCommon ==
  /\ pc = [t \in Threads |-> "idle"]
  /\ held = [t \in Threads |-> 0]
  /\ bret = [t \in Threads |-> FALSE]
  /\ counter = 0
  /\ tmp = [t \in Threads |-> 0]
  /\ incs = [t \in Threads |-> 0]
  /\ calls = [t \in Threads |-> 0]
  /\ val = 0
  /\ arg = [t \in Threads |-> 0]
  /\ ret = [t \in Threads |-> 0]
  /\ scope = [t \in Threads |-> 0]
  /\ crit = 0
  /\ critInit = "no"
  /\ lastSet = 0
  /\ seen = [t \in Threads |-> {}]
  /\ results = [t \in Threads |-> <<>>]

\* State after CriticalSection() has run on TheLock.
InitLock ==
  /\ InitCommon
  /\ mutex_owner = [c \in Crits |-> 0]
  /\ mutex_count = [c \in Crits |-> 0]
  /\ mutex_type = [c \in Crits |-> IF c = TheLock THEN MutexType ELSE "NONE"]
  /\ thread_ = [c \in Crits |-> 0]
  /\ ncrit = 1
  /\ platform \in {"WIN32", "APPLE"}
  /\ job = [t \in Threads |-> "lock"]

CallEnter(t) ==
  /\ pc[t] = "idle"
  /\ held[t] < MaxDepth
  /\ Goto(t, "Enter")
  /\ UNCHANGED <<lockVars, held, bret, clientVars, atomVars>>

EnterLock(t) ==
  /\ Enter_lock(t, TheLock, "Enter", "Enter_track")
  /\ held' = [held EXCEPT ![t] = @ + 1]
  /\ UNCHANGED <<bret, clientVars, atomVars>>

EnterTrack(t) ==
  /\ Enter_track(t, TheLock, "Enter_track", "idle")
  /\ UNCHANGED <<held, bret, clientVars, atomVars>>

TryEnter(t) ==
  /\ held[t] < MaxDepth
  /\ TryEnter_trylock(t, TheLock, "idle", "TryEnter_track", "TryEnter_ret")
  /\ held' = [held EXCEPT ![t] = IF pc'[t] = "TryEnter_track" THEN @ + 1 ELSE @]
  /\ bret' = [bret EXCEPT ![t] = FALSE]
  /\ UNCHANGED <<clientVars, atomVars>>

TryEnterTrack(t) ==
  /\ Enter_track(t, TheLock, "TryEnter_track", "TryEnter_ret")
  /\ bret' = [bret EXCEPT ![t] = TRUE]
  /\ UNCHANGED <<held, clientVars, atomVars>>

\* Leave is called only by a thread that holds the lock.
Leave(t) ==
  /\ held[t] > 0
  /\ Leave_track(t, TheLock, "idle", "Leave_unlock")
  /\ UNCHANGED <<held, bret, clientVars, atomVars>>

LeaveUnlock(t) ==
  /\ Leave_unlock(t, TheLock, "Leave_unlock", "idle")
  /\ held' = [held EXCEPT ![t] = @ - 1]
  /\ UNCHANGED <<bret, clientVars, atomVars>>

IsOwner(t) ==
  /\ pc[t] = "idle"
  /\ bret' = [bret EXCEPT ![t] = CurrentThreadIsOwner(t, TheLock)]
  /\ Goto(t, "IsOwner_ret")
  /\ UNCHANGED <<lockVars, held, clientVars, atomVars>>

\* TryEnter or CurrentThreadIsOwner returns to the caller.
ReturnBool(t) ==
  /\ pc[t] \in {"TryEnter_ret", "IsOwner_ret"}
  /\ Goto(t, "idle")
  /\ bret' = [bret EXCEPT ![t] = FALSE]
  /\ UNCHANGED <<lockVars, held, clientVars, atomVars>>

\* counter++ inside the critical region, as a read followed by a write.
CounterRead(t) ==
  /\ pc[t] = "idle"
  /\ held[t] > 0
  /\ incs[t] < MaxIncs
  /\ tmp' = [tmp EXCEPT ![t] = counter]
  /\ Goto(t, "cs_write")
  /\ UNCHANGED <<lockVars, held, bret, counter, incs, atomVars>>

CounterWrite(t) ==
  /\ pc[t] = "cs_write"
  /\ counter' = tmp[t] + 1
  /\ tmp' = [tmp EXCEPT ![t] = 0]
  /\ incs' = [incs EXCEPT ![t] = @ + 1]
  /\ Goto(t, "idle")
  /\ UNCHANGED <<lockVars, held, bret, atomVars>>

NextLock ==
  \E t \in Threads :
    \/ CallEnter(t)
    \/ EnterLock(t)
    \/ EnterTrack(t)
    \/ TryEnter(t)
    \/ TryEnterTrack(t)
    \/ Leave(t)
    \/ LeaveUnlock(t)
    \/ IsOwner(t)
    \/ ReturnBool(t)
    \/ CounterRead(t)
    \/ CounterWrite(t)

SpecLock == InitLock /\ [][NextLock]_vars

\* The calls on the lock alone, with scheduling.  StepLock(t) is the steps a
\* thread takes inside a call it has already made.  The threads are
\* preemptively scheduled OS threads: a thread that stays able to take its
\* next step inside Enter, TryEnter, Leave or CurrentThreadIsOwner is
\* eventually run.  Whether a thread makes another call is up to the caller.
StepLock(t) ==
  \/ EnterLock(t)
  \/ EnterTrack(t)
  \/ TryEnterTrack(t)
  \/ LeaveUnlock(t)
  \/ ReturnBool(t)

CallLock(t) ==
  \/ CallEnter(t)
  \/ TryEnter(t)
  \/ Leave(t)
  \/ IsOwner(t)

NextLockCalls == \E t \in Threads : CallLock(t) \/ StepLock(t)

SpecLockFair ==
  /\ InitLock
  /\ [][NextLockCalls]_vars
  /\ \A t \in Threads : WF_vars(StepLock(t))

----------------------------------------------------------------------------
\* AtomicOps.  Each thread calls one function (job) on the location val, any
\* number of times.  WIN32 uses the Interlocked intrinsics throughout; on APPLE
\* SafeGet / SafeSet use __sync_lock_test_and_set and Increment / Decrement
\* take the #else branch (SafeLock on StaticCrit()).

Jobs == {"SafeGet", "SafeSet", "Increment", "Decrement"}
\* Threads are interchangeable, so the assignments of functions to threads are
\* taken up to a permutation of the threads.
JobIndex(j) ==
  CASE j = "SafeGet" -> 1 [] j = "SafeSet" -> 2 [] j = "Increment" -> 3 [] j = "Decrement" -> 4

\* State before any AtomicOps call: the static of StaticCrit is uninitialised
\* and no CriticalSection exists.
InitAtomic ==
  /\ InitCommon
  /\ mutex_owner = [c \in Crits |-> 0]
  /\ mutex_count = [c \in Crits |-> 0]
  /\ mutex_type = [c \in Crits |-> "NONE"]
  /\ thread_ = [c \in Crits |-> 0]
  /\ ncrit = 0
  /\ platform \in {"WIN32", "APPLE"}
  /\ job \in [Threads -> Jobs]
  /\ \A t \in Threads : t > 1 => JobIndex(job[t - 1]) <= JobIndex(job[t])

RECURSIVE SumTo(_, _)
SumTo(f, n) == IF n = 0 THEN 0 ELSE f[n] + SumTo(f, n - 1)

\* Calls made so far, completed or in progress; the threads make MaxCalls calls
\* in all, shared among them in any way (so each of NThreads threads making M
\* calls is covered for NThreads * M <= MaxCalls).
Started == SumTo(calls, NThreads) + Cardinality({t \in Threads : pc[t] # "idle"})

\* Every write of val is seen by the SafeGet calls in progress.
Observe(v) ==
  seen' = [u \in Threads |-> IF seen[u] = {} THEN {} ELSE seen[u] \cup {v}]

Exchange_retnew(t, new) ==
  /\ val' = new
  /\ ret' = [ret EXCEPT ![t] = new]

\* InterlockedExchange(&nVal, new) / __sync_lock_test_and_set(&nVal, new):
\* one atomic step that stores new and returns the previous value.
Exchange(t, new) ==
  /\ val' = new
  /\ ret' = [ret EXCEPT ![t] = val]

\* The value the k-th SafeSet call of thread t installs (distinct per call).
NewVal(t, k) == 10 * t + k

\* SafeGet(nVal): the value argument nVal is read before the exchange.  The
\* read is a plain load, not ordered with the exchanges of other threads; an
\* aligned long is loaded in one piece, so it yields the value the location
\* holds at the instant of the load.
SafeGet_arg(t) ==
  /\ pc[t] = "idle" /\ job[t] = "SafeGet" /\ Started < MaxCalls
  /\ arg' = [arg EXCEPT ![t] = val]
  /\ seen' = [seen EXCEPT ![t] = {val}]
  /\ Goto(t, "SafeGet_xchg")
  /\ UNCHANGED <<lockVars, held, bret, clientVars, platform, job, calls, val, ret,
                 scope, crit, critInit, lastSet, results>>

SafeGet_cas(t) ==
  /\ pc[t] = "SafeGet_xchg"
  /\ val' = val
  /\ ret' = [ret EXCEPT ![t] = IF val = arg[t] THEN 1 ELSE 0]
  /\ Observe(val')
  /\ Goto(t, "ret")
  /\ UNCHANGED <<lockVars, held, bret, clientVars, platform, job, calls, arg,
                 scope, crit, critInit, lastSet, results>>

\* long nSafeVal = InterlockedExchange(&nVal, nVal);
SafeGet_xchg(t) ==
  /\ pc[t] = "SafeGet_xchg"
  /\ Exchange(t, arg[t])
  /\ Observe(val')
  /\ Goto(t, "ret")
  /\ UNCHANGED <<lockVars, held, bret, clientVars, platform, job, calls, arg,
                 scope, crit, critInit, lastSet, results>>

\* SafeSet(nVal, nNewVal) is called.
SafeSet_call(t) ==
  /\ pc[t] = "idle" /\ job[t] = "SafeSet" /\ Started < MaxCalls
  /\ arg' = [arg EXCEPT ![t] = NewVal(t, calls[t] + 1)]
  /\ Goto(t, "SafeSet_xchg")
  /\ UNCHANGED <<lockVars, held, bret, clientVars, platform, job, calls, val, ret,
                 scope, crit, critInit, lastSet, seen, results>>

\* nSafeVal = InterlockedExchange(&nVal, nNewVal);
SafeSet_xchg(t) ==
  /\ pc[t] = "SafeSet_xchg"
  /\ Exchange(t, arg[t])
  /\ Observe(val')
  /\ lastSet' = arg[t]
  /\ Goto(t, "ret")
  /\ UNCHANGED <<lockVars, held, bret, clientVars, platform, job, calls, arg,
                 scope, crit, critInit, results>>

\* Decrement written as a copy of Increment.
Delta_copy(t) == 1

\* ++(*i) / InterlockedIncrement add one, --(*i) / InterlockedDecrement subtract one.
Delta(t) == IF job[t] = "Increment" THEN 1 ELSE -1

\* Increment(i) / Decrement(i) is called: #ifdef WIN32 selects the body.
IncDec_call(t) ==
  /\ pc[t] = "idle" /\ job[t] \in {"Increment", "Decrement"} /\ Started < MaxCalls
  /\ Goto(t, IF platform = "WIN32" THEN "Interlocked" ELSE "StaticCrit")
  /\ UNCHANGED <<lockVars, held, bret, clientVars, atomVars>>

\* return ::InterlockedIncrement(i) / ::InterlockedDecrement(i)
Interlocked(t) ==
  /\ pc[t] = "Interlocked"
  /\ val' = val + Delta(t)
  /\ ret' = [ret EXCEPT ![t] = val + Delta(t)]
  /\ Observe(val')
  /\ Goto(t, "ret")
  /\ UNCHANGED <<lockVars, held, bret, clientVars, platform, job, calls, arg,
                 scope, crit, critInit, lastSet, results>>

StaticCrit_racy(t) ==
  /\ pc[t] = "StaticCrit"
  /\ IF crit # 0
       THEN /\ scope' = [scope EXCEPT ![t] = crit]
            /\ Goto(t, "lock")
       ELSE /\ scope' = scope
            /\ Goto(t, "new")
  /\ UNCHANGED critInit

\* StaticCrit(): static Sync::CriticalSection* crit = ...; return crit;
\* The initialisation of a function-local static runs once: the first thread
\* runs it, a thread arriving while it runs waits, later calls skip it.
StaticCrit_enter(t) ==
  /\ pc[t] = "StaticCrit"
  /\ \/ /\ critInit = "done"
        /\ scope' = [scope EXCEPT ![t] = crit]
        /\ Goto(t, "lock")
        /\ UNCHANGED critInit
     \/ /\ critInit = "no"
        /\ critInit' = "running"
        /\ Goto(t, "new")
        /\ UNCHANGED scope

StaticCrit(t) ==
  /\ StaticCrit_enter(t)
  /\ UNCHANGED <<lockVars, held, bret, clientVars, platform, job, calls, val, arg,
                 ret, crit, lastSet, seen, results>>

\* ... = new Sync::CriticalSection(); return crit;
StaticCrit_new(t) ==
  /\ pc[t] = "new"
  /\ ncrit < NThreads
  /\ Construct(ncrit + 1)
  /\ crit' = ncrit + 1
  /\ critInit' = "done"
  /\ scope' = [scope EXCEPT ![t] = ncrit + 1]
  /\ Goto(t, "lock")
  /\ UNCHANGED <<held, bret, clientVars, platform, job, calls, val, arg, ret,
                 lastSet, seen, results>>

\* A temporary SafeLock(StaticCrit()); is destroyed before ++(*i) runs.
After_temporary(l) ==
  CASE l = "lock" -> "track"
    [] l = "track" -> "untrack"
    [] l = "untrack" -> "unlock"
    [] l = "unlock" -> "load"
    [] l = "load" -> "store"
    [] l = "store" -> "ret"

\* Order of the steps of the lock path of Increment / Decrement:
\* SafeLock scope(StaticCrit()); return ++(*i); and then ~SafeLock().
After(l) ==
  CASE l = "lock" -> "track"
    [] l = "track" -> "load"
    [] l = "load" -> "store"
    [] l = "store" -> "untrack"
    [] l = "untrack" -> "unlock"
    [] l = "unlock" -> "ret"

\* SafeLock scope(...): the constructor calls Lock(), that is Enter().
SafeLock_lock(t) ==
  /\ Enter_lock(t, scope[t], "lock", After("lock"))
  /\ held' = [held EXCEPT ![t] = @ + 1]
  /\ UNCHANGED <<bret, clientVars, atomVars>>

SafeLock_track(t) ==
  /\ Enter_track(t, scope[t], "track", After("track"))
  /\ UNCHANGED <<held, bret, clientVars, atomVars>>

\* ++(*i) / --(*i): the read of *i
IncDec_load(t) ==
  /\ pc[t] = "load"
  /\ arg' = [arg EXCEPT ![t] = val]
  /\ Goto(t, After("load"))
  /\ UNCHANGED <<lockVars, held, bret, clientVars, platform, job, calls, val, ret,
                 scope, crit, critInit, lastSet, seen, results>>

\* ++(*i) / --(*i): the write of *i; its new value is the return value, taken
\* before scope is destroyed.
IncDec_store(t) ==
  /\ pc[t] = "store"
  /\ val' = arg[t] + Delta(t)
  /\ ret' = [ret EXCEPT ![t] = val']
  /\ Observe(val')
  /\ Goto(t, After("store"))
  /\ UNCHANGED <<lockVars, held, bret, clientVars, platform, job, calls, arg,
                 scope, crit, critInit, lastSet, results>>

\* ~SafeLock(): the destructor calls UnLock(), that is Leave().
SafeLock_untrack(t) ==
  /\ Leave_track(t, scope[t], "untrack", After("untrack"))
  /\ UNCHANGED <<held, bret, clientVars, atomVars>>

SafeLock_unlock(t) ==
  /\ Leave_unlock(t, scope[t], "unlock", After("unlock"))
  /\ held' = [held EXCEPT ![t] = @ - 1]
  /\ UNCHANGED <<bret, clientVars, atomVars>>

\* The call returns ret[t] to its caller.
Return(t) ==
  /\ pc[t] = "ret"
  /\ results' = [results EXCEPT ![t] = Append(@, ret[t])]
  /\ calls' = [calls EXCEPT ![t] = @ + 1]
  /\ arg' = [arg EXCEPT ![t] = 0]
  /\ ret' = [ret EXCEPT ![t] = 0]
  /\ scope' = [scope EXCEPT ![t] = 0]
  /\ seen' = [seen EXCEPT ![t] = {}]
  /\ Goto(t, "idle")
  /\ UNCHANGED <<lockVars, held, bret, clientVars, platform, job, val, crit,
                 critInit, lastSet>>

NextAtomic ==
  \E t \in Threads :
    \/ SafeGet_arg(t)
    \/ SafeGet_xchg(t)
    \/ SafeSet_call(t)
    \/ SafeSet_xchg(t)
    \/ IncDec_call(t)
    \/ Interlocked(t)
    \/ StaticCrit(t)
    \/ StaticCrit_new(t)
    \/ SafeLock_lock(t)
    \/ SafeLock_track(t)
    \/ IncDec_load(t)
    \/ IncDec_store(t)
    \/ SafeLock_untrack(t)
    \/ SafeLock_unlock(t)
    \/ Return(t)

SpecAtomic == InitAtomic /\ [][NextAtomic]_vars

----------------------------------------------------------------------------
\* The lock path alone, with scheduling: threads that call Increment or
\* Decrement on the platform without the Interlocked branch.  The threads are
\* preemptively scheduled OS threads: a thread whose next step stays possible
\* is eventually run (weak fairness per thread).  A thread blocked in
\* pthread_mutex_lock can take its step only while the mutex is free.

InitFallback ==
  /\ InitAtomic
  /\ platform = "APPLE"
  /\ \A t \in Threads : job[t] \in {"Increment", "Decrement"}

ThreadFallback(t) ==
  \/ IncDec_call(t)
  \/ StaticCrit(t)
  \/ StaticCrit_new(t)
  \/ SafeLock_lock(t)
  \/ SafeLock_track(t)
  \/ IncDec_load(t)
  \/ IncDec_store(t)
  \/ SafeLock_untrack(t)
  \/ SafeLock_unlock(t)
  \/ Return(t)

NextFallback == \E t \in Threads : ThreadFallback(t)

SpecFallbackFair ==
  /\ InitFallback
  /\ [][NextFallback]_vars
  /\ \A t \in Threads : WF_vars(ThreadFallback(t))

----------------------------------------------------------------------------
\* Properties of the lock

Holders == {t \in Threads : held[t] > 0}

\* C1: mutual exclusion. In every state at most one thread holds the lock, and
\* the counter incremented by read-then-write inside the lock has lost no
\* update: it equals the number of increments done, so it is NThreads * MaxIncs
\* once every thread has done its MaxIncs increments.
MutualExclusion ==
  /\ Cardinality(Holders) <= 1
  /\ counter = SumTo(incs, NThreads)
  /\ (\A t \in Threads : incs[t] = MaxIncs) => counter = NThreads * MaxIncs

\* Every thread has done all its increments; another thread was waiting in
\* Enter while the last write was made.
MutualExclusionWitness ==
  /\ \A t \in Threads : incs[t] = MaxIncs
  /\ counter = NThreads * MaxIncs
  /\ \E t \in Threads : pc[t] = "Enter" /\ held[t] = 0

Unlocked(c) == mutex_owner[c] = 0 /\ mutex_count[c] = 0
LockedBy(c, t, n) == mutex_owner[c] = t /\ mutex_count[c] = n
UnlockedNext(c) == mutex_owner'[c] = 0 /\ mutex_count'[c] = 0
LockedByNext(c, t, n) == mutex_owner'[c] = t /\ mutex_count'[c] = n

\* The lock is Unlocked exactly when no thread holds it, and a thread that has
\* entered k times more than it has left is the owner with count k.
HoldCountInv ==
  /\ (Holders = {}) <=> Unlocked(TheLock)
  /\ \A t \in Threads : held[t] > 0 => LockedBy(TheLock, t, held[t])
  /\ \A t \in Threads :
       pc[t] = "Enter" /\ held[t] > 0 => ENABLED EnterLock(t)

HoldCountStep ==
  \A t \in Threads :
    \* Enter / TryEnter succeed only from Unlocked or from LockedByT(self, n)
    /\ held'[t] = held[t] + 1 =>
         /\ Holders \subseteq {t}
         /\ LockedByNext(TheLock, t, held[t] + 1)
    \* Leave with count n > 1 keeps the owner
    /\ (held'[t] = held[t] - 1 /\ held[t] > 1) =>
         LockedByNext(TheLock, t, held[t] - 1)
    \* only Leave with count 1 makes the lock Unlocked
    /\ (~Unlocked(TheLock) /\ UnlockedNext(TheLock)) =>
         (LockedBy(TheLock, t, 1) <=> pc[t] = "Leave_unlock")
    \* the owner changes only through Unlocked
    /\ (mutex_owner[TheLock] = t /\ mutex_owner'[TheLock] # t) =>
         UnlockedNext(TheLock)

\* C2: reentrant hold-count state machine. A new CriticalSection is Unlocked;
\* Enter by the holder with count n does not block and gives count n+1; Leave
\* with count n>1 gives n-1 with the same owner; only Leave with count 1
\* unlocks; so no other thread acquires the lock before the holder's k-th Leave.
ReentrantHoldCount ==
  /\ Unlocked(TheLock)
  /\ []HoldCountInv
  /\ [][HoldCountStep]_vars

\* A thread holds the lock twice while another one waits in Enter.
ReentrantWitness ==
  \E t, u \in Threads :
    /\ LockedBy(TheLock, t, 2) /\ held[t] = 2 /\ pc[t] = "idle"
    /\ u # t /\ pc[u] = "Enter"

\* The lock is free or already held by the caller t.
FreeOrMine(t) == Holders \subseteq {t}

TryEnterStep ==
  \A t \in Threads :
    (pc[t] = "idle" /\ pc'[t] \in {"TryEnter_track", "TryEnter_ret"}) =>
      IF FreeOrMine(t)
        THEN /\ pc'[t] = "TryEnter_track"
             /\ held'[t] = held[t] + 1
             /\ LockedByNext(TheLock, t, held[t] + 1)
        ELSE /\ pc'[t] = "TryEnter_ret"
             /\ bret'[t] = FALSE
             /\ UNCHANGED <<mutex_owner, mutex_count, thread_, held>>

\* C3: TryEnter never blocks and is exact. It takes the lock (or raises the
\* caller's count by one) and returns true iff the lock is Unlocked or held by
\* the caller at the call; otherwise it returns false and leaves owner,
\* hold-count and thread_ unchanged.
TryEnterExact ==
  /\ [](\A t \in Threads :
          /\ (pc[t] = "idle" /\ held[t] < MaxDepth) => ENABLED TryEnter(t)
          /\ pc[t] = "TryEnter_track" => ENABLED TryEnterTrack(t)
          /\ pc[t] = "TryEnter_ret" => (bret[t] <=> held[t] > 0 /\ thread_[TheLock] = t))
  /\ [][TryEnterStep]_vars

\* TryEnter has returned false to a thread while another thread holds the lock.
TryEnterWitness ==
  \E t, u \in Threads :
    /\ pc[t] = "TryEnter_ret" /\ ~bret[t] /\ held[t] = 0
    /\ u # t /\ held[u] > 0 /\ thread_[TheLock] = u

\* C4: CurrentThreadIsOwner() called by thread t returns true exactly when t
\* holds the lock (hold-count >= 1), also after a nested acquisition has been
\* partly released.
IsOwnerExact ==
  \A t \in Threads : pc[t] = "IsOwner_ret" => (bret[t] <=> held[t] >= 1)

----------------------------------------------------------------------------
\* Properties of AtomicOps

AllJobs(J) == \A t \in Threads : job[t] \in J
\* No call is in progress / and no further call can be made.
Quiescent == \A t \in Threads : pc[t] = "idle"
AllDone == Quiescent /\ SumTo(calls, NThreads) = MaxCalls

\* Values returned so far, by completed calls and by calls about to return.
Returned == UNION {{results[t][k] : k \in 1..Len(results[t])} : t \in Threads}
Returning == {t \in Threads : pc[t] = "ret"}
ReturnedAll == Returned \cup {ret[t] : t \in Returning}
NumReturned == SumTo([t \in Threads |-> Len(results[t])], NThreads) + Cardinality(Returning)

\* Values installed by the SafeSet calls that have taken effect.
Installed ==
  UNION {{NewVal(t, k) : k \in 1..(calls[t] + IF t \in Returning THEN 1 ELSE 0)} :
           t \in {u \in Threads : job[u] = "SafeSet"}}

SafeSetStep ==
  \A t \in Threads :
    (pc[t] = "SafeSet_xchg" /\ pc'[t] # pc[t]) => (ret'[t] = val /\ val' = arg[t])

\* With SafeSet calls only: no value is returned twice; the values returned,
\* with the value now in the location, are exactly the initial value and the
\* values installed; the location holds the value installed last.
SafeSetChain ==
  AllJobs({"SafeSet"}) =>
    /\ Cardinality(ReturnedAll) = NumReturned
    /\ val \notin ReturnedAll
    /\ ReturnedAll \cup {val} = Installed \cup {0}
    /\ val = lastSet

\* C5: SafeSet is an atomic exchange. Each call returns the value the location
\* held right before its own replacement; with SafeSet calls only, the calls
\* form one chain: every value returned is the initial value or the value
\* installed by the call directly before, no installed value is returned by
\* two calls, and the location holds the value installed by the last call.
SafeSetIsExchange ==
  /\ []SafeSetChain
  /\ [][SafeSetStep]_vars

\* Every thread has made all its SafeSet calls, and some call returned a value
\* installed by another thread.
SafeSetWitness ==
  /\ AllJobs({"SafeSet"}) /\ AllDone
  /\ \E t \in Threads : \E k \in 1..Len(results[t]) :
       results[t][k] # 0 /\ results[t][k] \notin {NewVal(t, m) : m \in 1..MaxCalls}

\* C6: SafeGet is an atomic read. The value a SafeGet call returns is one the
\* location held at some instant between the call's invocation and its return.
SafeGetReadsHeldValue ==
  \A t \in Threads :
    (job[t] = "SafeGet" /\ pc[t] = "ret") => ret[t] \in seen[t]

\* A SafeGet returns a value that a SafeSet installed after the SafeGet had
\* been invoked.
SafeGetWitness ==
  \E t \in Threads :
    /\ job[t] = "SafeGet" /\ pc[t] = "ret"
    /\ ret[t] = lastSet /\ lastSet # 0 /\ arg[t] # ret[t]

\* C7: SafeGet only reads. The location keeps the value installed by the last
\* SafeSet that took effect (the initial value before any), whatever SafeGet
\* calls run concurrently.
SafeGetOnlyReads ==
  AllJobs({"SafeGet", "SafeSet"}) => val = lastSet

\* C8: Increment has no lost updates. With Increment calls only, on the WIN32
\* path and on the lock path: no two calls return the same value, each thread's
\* returned values increase, a call that has just stored under the lock returns
\* the value the location holds, and whenever all calls made have returned the
\* location holds their number (NThreads * M when each thread has made M calls)
\* and the returned values are exactly 1 .. that number.
IncrementNoLostUpdate ==
  AllJobs({"Increment"}) =>
    /\ Cardinality(ReturnedAll) = NumReturned
    /\ \A t \in Threads : \A k \in 1..Len(results[t]) :
         /\ results[t][k] \in 1..MaxCalls
         /\ k > 1 => results[t][k - 1] < results[t][k]
    /\ \A t \in Threads : pc[t] \in {"untrack", "unlock"} => ret[t] = val
    /\ Quiescent =>
         /\ val = SumTo(calls, NThreads)
         /\ Returned = 1..val
         /\ (\A t \in Threads : calls[t] = calls[1]) => val = NThreads * calls[1]

\* All Increment calls have returned on the lock path, every thread has made
\* the same number of calls, and the calls of different threads were interleaved.
IncrementWitness ==
  /\ AllJobs({"Increment"}) /\ platform = "APPLE" /\ Quiescent
  /\ \A t \in Threads : calls[t] = calls[1] /\ calls[t] >= 1
  /\ val = NThreads * calls[1]
  /\ \E t \in Threads : results[t][1] > 1

\* C9: on the platform where Increment / Decrement take the lock path, every
\* AtomicOps function accesses the location only while the calling thread
\* holds the shared CriticalSection.
AccessPoints == {"SafeGet_xchg", "SafeSet_xchg", "load", "store"}
FallbackAccessUnderLock ==
  platform = "APPLE" =>
    \A t \in Threads :
      pc[t] \in AccessPoints => (crit # 0 /\ mutex_owner[crit] = t)

\* C9 as amended: on that platform Increment and Decrement read and write the
\* location only while the calling thread holds the shared CriticalSection,
\* which it has acquired in the call and releases before the call returns;
\* SafeGet and SafeSet exchange the location without holding any lock.
LockFree == {"idle", "StaticCrit", "new", "lock", "ret", "SafeGet_xchg", "SafeSet_xchg"}
IncDecAccessUnderLock ==
  platform = "APPLE" =>
    \A t \in Threads :
      /\ pc[t] \in {"load", "store"} =>
           (crit # 0 /\ scope[t] = crit /\ mutex_owner[crit] = t /\ held[t] = 1)
      /\ pc[t] \in LockFree =>
           (held[t] = 0 /\ \A c \in Crits : mutex_owner[c] # t)

\* An Increment or Decrement is about to write under the lock while a SafeSet
\* of another thread is about to exchange without it.
IncDecAccessWitness ==
  /\ platform = "APPLE"
  /\ \E t, u \in Threads :
       /\ pc[t] = "store" /\ mutex_owner[crit] = t
       /\ pc[u] = "SafeSet_xchg" /\ scope[u] = 0

\* C10: the lock of the lock path is a singleton. StaticCrit() constructs one
\* CriticalSection, on its first use; every call returns that instance, also
\* first calls made concurrently; it is never replaced or constructed again.
SingletonInv ==
  /\ ncrit <= 1
  /\ crit # 0 <=> ncrit = 1
  /\ crit # 0 <=> critInit = "done"
  /\ \A t \in Threads : scope[t] # 0 => (scope[t] = crit /\ crit = 1)
  /\ \A t \in Threads : pc[t] \in {"lock", "track", "load", "store", "untrack", "unlock"}
                          => scope[t] # 0
  /\ (crit = 0 /\ critInit = "no") =>
        \A t \in Threads :
          (platform = "APPLE" /\ job[t] \in {"Increment", "Decrement"}) =>
            (calls[t] = 0 /\ pc[t] \in {"idle", "StaticCrit"})
  /\ critInit = "running" => Cardinality({t \in Threads : pc[t] = "new"}) = 1
StaticCritSingleton ==
  /\ []SingletonInv
  /\ [][crit # 0 => (crit' = crit /\ ncrit' = ncrit)]_vars

\* Two threads made their first calls concurrently: one holds the lock through
\* the instance, the other got the same instance and waits for it.
SingletonWitness ==
  \E t, u \in Threads :
    /\ t # u /\ calls[t] = 0 /\ calls[u] = 0
    /\ scope[t] = crit /\ scope[u] = crit /\ crit # 0
    /\ pc[t] = "store" /\ pc[u] = "lock"

\* Positions of a thread inside the lock path of Increment / Decrement, and
\* those at which its SafeLock scope exists and holds the lock.
InsideIncDec == {"StaticCrit", "new", "lock", "track", "load", "store", "untrack", "unlock", "ret"}
ScopeHeld == {"track", "load", "store", "untrack", "unlock"}

ScopedInv ==
  platform = "APPLE" =>
    /\ \A t \in Threads :
         IF pc[t] \in ScopeHeld
           THEN held[t] = 1 /\ LockedBy(scope[t], t, 1)
           ELSE held[t] = 0 /\ \A c \in Crits : mutex_owner[c] # t
    /\ (\A t \in Threads : pc[t] \notin InsideIncDec) =>
         \A c \in Crits : Unlocked(c)

ScopedStep ==
  \A t \in Threads :
    /\ held'[t] > held[t] => (pc[t] = "lock" /\ held[t] = 0 /\ LockedByNext(scope[t], t, 1))
    /\ held'[t] < held[t] => (pc[t] = "unlock" /\ held'[t] = 0 /\ UnlockedNext(scope[t]))
    /\ (pc[t] = "ret" /\ pc'[t] = "idle") => (held[t] = 0 /\ held'[t] = 0)

\* C11: scoped acquisition on the lock path. Each call of Increment or
\* Decrement acquires the shared lock once, when its SafeLock is constructed,
\* and releases it once, before it returns: the caller's hold-count after the
\* call equals the one before it (0), and the lock is Unlocked whenever no
\* thread is inside Increment or Decrement.
ScopedAcquisition ==
  /\ []ScopedInv
  /\ [][ScopedStep]_vars

\* An Increment and a Decrement have returned on the lock path, nobody is
\* inside a call and the shared lock is Unlocked.
ScopedWitness ==
  /\ platform = "APPLE" /\ Quiescent /\ crit # 0 /\ Unlocked(crit)
  /\ \E t, u \in Threads :
       /\ job[t] = "Increment" /\ calls[t] >= 1 /\ held[t] = 0
       /\ job[u] = "Decrement" /\ calls[u] >= 1 /\ held[u] = 0

\* The contract of one call run alone on a location holding cur: the value it
\* leaves and the value it returns (k is the number of the call in its thread).
SerialVal(t, k, cur) ==
  CASE job[t] = "Increment" -> cur + 1
    [] job[t] = "Decrement" -> cur - 1
    [] job[t] = "SafeSet" -> NewVal(t, k)
    [] job[t] = "SafeGet" -> cur
SerialRet(t, k, cur) ==
  CASE job[t] = "Increment" -> cur + 1
    [] job[t] = "Decrement" -> cur - 1
    [] job[t] = "SafeSet" -> cur
    [] job[t] = "SafeGet" -> cur

\* Some serial order of the completed calls that are not yet placed (done[t] of
\* thread t's calls are), run from cur, returns what the calls returned and
\* leaves the value the location holds.
RECURSIVE SerialFrom(_, _)
SerialFrom(done, cur) ==
  IF \A t \in Threads : done[t] = Len(results[t])
    THEN cur = val
    ELSE \E t \in Threads :
           /\ done[t] < Len(results[t])
           /\ results[t][done[t] + 1] = SerialRet(t, done[t] + 1, cur)
           /\ SerialFrom([done EXCEPT ![t] = @ + 1], SerialVal(t, done[t] + 1, cur))
Serializable == SerialFrom([t \in Threads |-> 0], 0)

CallsOf(j) == SumTo([t \in Threads |-> IF job[t] = j THEN calls[t] ELSE 0], NThreads)

\* C12: Decrement is the atomic inverse of Increment. With Increment and
\* Decrement calls only, on the location initially 0: whenever all calls made
\* have returned, the location holds (Increment calls) - (Decrement calls) and
\* the values returned are those of some serial order of the calls; a
\* Decrement that has just stored under the lock returns the value the
\* location holds.
DecrementInverse ==
  AllJobs({"Increment", "Decrement"}) =>
    /\ \A t \in Threads : pc[t] \in {"untrack", "unlock"} => ret[t] = val
    /\ Quiescent =>
         /\ val = CallsOf("Increment") - CallsOf("Decrement")
         /\ Serializable

\* Increment, Decrement, Increment took effect in this order, by two threads,
\* on the lock path.
DecrementWitness ==
  /\ platform = "APPLE" /\ Quiescent /\ val = 1
  /\ \E t, u \in Threads :
       /\ job[t] = "Increment" /\ results[t] = <<1, 1>>
       /\ job[u] = "Decrement" /\ results[u] = <<0>>

\* C13: on the lock path operations of different kinds on one location are
\* serialized. With SafeSet calls by some threads and Increment or Decrement
\* calls by others, whenever all calls made have returned the value of the
\* location and the values returned are those of some serial order of the
\* calls, so no SafeSet, Increment or Decrement is lost.
MixedSerialized ==
  (platform = "APPLE" /\ AllJobs({"SafeSet", "Increment", "Decrement"})) =>
    (Quiescent => Serializable)

\* Every call has been made and has returned.
FallbackDone == Quiescent /\ SumTo(calls, NThreads) = MaxCalls

\* C14: the lock path terminates. With finitely many Increment / Decrement
\* calls and every thread scheduled weakly fairly, every call that has started
\* returns, the system reaches the state in which all calls have returned and
\* the shared lock is Unlocked, and no state before that is a deadlock.
FallbackTerminates ==
  /\ [](FallbackDone \/ ENABLED NextFallback)
  /\ \A t \in Threads : (pc[t] # "idle") ~> (pc[t] = "idle")
  /\ <>(FallbackDone /\ crit # 0 /\ Unlocked(crit))

\* All calls have returned, both threads made calls, and one of them had to
\* wait for the lock (its first call returned after the other's).
FallbackWitness ==
  /\ FallbackDone /\ crit # 0 /\ Unlocked(crit)
  /\ \A t \in Threads : calls[t] >= 1
  /\ \E t, u \in Threads : t # u /\ job[t] = "Increment" /\ job[u] = "Increment"
                            /\ results[t][1] > results[u][1]

\* Some thread is waiting in Enter.
Waiting == \E t \in Threads : pc[t] = "Enter"

\* Enter blocks exactly while another thread holds the lock.
EnterBlocksOnlyOnOther ==
  \A t \in Threads : pc[t] = "Enter" =>
    ((ENABLED EnterLock(t)) <=> mutex_owner[TheLock] \in {0, t})

\* Leave never blocks: a holder can start it and can finish it.
LeaveNeverBlocks ==
  \A t \in Threads :
    /\ (pc[t] = "idle" /\ held[t] > 0) => ENABLED Leave(t)
    /\ pc[t] = "Leave_unlock" => ENABLED LeaveUnlock(t)

\* If every holder eventually gives up all its holds, the lock is Unlocked
\* again and again.
HoldersLeave == \A t \in Threads : [](held[t] > 0 => <>(held[t] = 0))

NeverPermanentlyUnavailable == HoldersLeave => []<>Unlocked(TheLock)

\* A thread has just obtained the lock in Enter, where it was waiting.
WaiterBecameHolder == \E t \in Threads : pc[t] = "Enter_track"

\* C15 as stated: Enter blocks only while another thread holds the lock;
\* whenever the lock is Unlocked and a thread is waiting in Enter, some
\* thread waiting in Enter eventually becomes the holder; Leave never
\* blocks; the lock is never left permanently unavailable.  The waiters'
\* progress is read in the claim's favour: only for behaviours in which every
\* holder eventually leaves, and any thread that obtains the lock in Enter
\* counts as a waiting thread.
LockProgress ==
  /\ []EnterBlocksOnlyOnOther
  /\ HoldersLeave => ((Unlocked(TheLock) /\ Waiting) ~> WaiterBecameHolder)
  /\ []LeaveNeverBlocks
  /\ NeverPermanentlyUnavailable

\* C15 (amended): as above, but whenever the lock is Unlocked and a thread
\* is waiting in Enter, some thread eventually becomes the holder, which
\* need not be one that waited in Enter: a thread can take the lock through
\* TryEnter ahead of the waiters.
LockProgressSomeThread ==
  /\ []EnterBlocksOnlyOnOther
  /\ (Unlocked(TheLock) /\ Waiting) ~> ~Unlocked(TheLock)
  /\ []LeaveNeverBlocks
  /\ NeverPermanentlyUnavailable

\* A thread waits in Enter while another thread that holds the lock once is
\* in the middle of Leave: its unlock makes the lock Unlocked with a waiter.
LockProgressWitness ==
  \E t, u \in Threads :
    /\ t # u
    /\ pc[t] = "Enter" /\ held[t] = 0 /\ ~ENABLED EnterLock(t)
    /\ pc[u] = "Leave_unlock" /\ LockedBy(TheLock, u, 1)

\* Thread t executes a statement that assigns thread_.
WritesOwnerField(t) ==
  /\ pc'[t] # pc[t]
  /\ \/ pc[t] \in {"Enter_track", "TryEnter_track"}
     \/ pc'[t] = "Leave_unlock"

OwnerFieldInv ==
  /\ thread_[TheLock] \in {0, mutex_owner[TheLock]}
  /\ Unlocked(TheLock) => thread_[TheLock] = 0
  /\ \A t \in Threads :
       (pc[t] = "IsOwner_ret" /\ bret[t]) => (held[t] > 0 /\ mutex_owner[TheLock] = t)

OwnerFieldStep ==
  /\ \A t \in Threads : WritesOwnerField(t) =>
       (mutex_owner[TheLock] = t /\ thread_'[TheLock] \in {0, t})
  /\ thread_' # thread_ => \E t \in Threads : WritesOwnerField(t)

\* C16: with owner tracking, thread_ is 0 or the id of the thread that holds
\* the lock, it is 0 whenever the lock is Unlocked, only a thread that holds
\* the lock writes it, and CurrentThreadIsOwner() never returns true to a
\* thread that does not hold the lock.
OwnerFieldSound ==
  /\ []OwnerFieldInv
  /\ [][OwnerFieldStep]_vars

\* The holder, holding twice, and another thread both asked
\* CurrentThreadIsOwner(): the holder got true, the other one false.
OwnerFieldWitness ==
  \E t, u \in Threads :
    /\ t # u
    /\ LockedBy(TheLock, t, 2) /\ thread_[TheLock] = t
    /\ pc[t] = "IsOwner_ret" /\ bret[t]
    /\ pc[u] = "IsOwner_ret" /\ ~bret[u]

====
